---- MODULE Spec2Model ----
(***************************************************************************)
(* Floor-sheet scraper: the three scripts of the repository                *)
(*   "v1"  src/unnamed/part_000             (date picker added)            *)
(*   "v2"  src/scrape_floorsheet.py         (month arrows, 'As of' echo)   *)
(*   "v3"  src/python_scrape_floorsheet.py  (stable selectors, retries)    *)
(* run against one model of the remote single-page application: a date     *)
(* picker popup, a date echo, and a paginated table that is re-rendered    *)
(* asynchronously after the application accepted a click.                  *)
(***************************************************************************)
EXTENDS Integers, Sequences, FiniteSets, TLC

\* ------------------------------------------------------------ bounds
MaxPages == 2
RowsPerPage == 2
TodayPages == 2
YearWin == 2

\* --------------------------------------------------- program constants
ARITY == 7
YEAR_STEPS == 35
CLOSE_POLLS == 20
STABLE_POLLS == 25
ASOF_POLLS == 20
MONTH_STEPS == 48
STALE_TRIES == 4
GRID_ROUNDS == 3

\* ------------------------------------------------------------- dates
\* A date is <<year, month, day>>; a date string is <<separator, y, m, d>>.
Years == 2022..2029
Today == <<2026, 1, 2>>
START_DATE == <<2025, 12, 31>>
END_DATE == <<2026, 1, 1>>
NoDate == <<>>
NoText == <<>>
None == <<>>

IsLeap(y) == (y % 4 = 0 /\ y % 100 # 0) \/ y % 400 = 0

DaysIn(y, m) ==
    IF m = 2 THEN (IF IsLeap(y) THEN 29 ELSE 28)
    ELSE IF m \in {4, 6, 9, 11} THEN 30 ELSE 31

NextDay(d) ==
    IF d[3] < DaysIn(d[1], d[2]) THEN <<d[1], d[2], d[3] + 1>>
    ELSE IF d[2] < 12 THEN <<d[1], d[2] + 1, 1>>
    ELSE <<d[1] + 1, 1, 1>>

DateLE(a, b) ==
    \/ a[1] < b[1]
    \/ a[1] = b[1] /\ a[2] < b[2]
    \/ a[1] = b[1] /\ a[2] = b[2] /\ a[3] <= b[3]

RECURSIVE daterange_inclusive(_, _)
daterange_inclusive(s, e) ==
    IF DateLE(s, e) THEN <<s>> \o daterange_inclusive(NextDay(s), e) ELSE <<>>

strftime(d) == <<"-", d[1], d[2], d[3]>>
strptime(s) == <<s[2], s[3], s[4]>>
replace(s, a, b) == IF s # <<>> /\ s[1] = a THEN <<b, s[2], s[3], s[4]>> ELSE s
Shown(d) == <<"/", d[1], d[2], d[3]>>

\* ----------------------------------------------------------- state
VARIABLES
    ver, dates, alive,                                 \* the script, its date range, its browser session
    pag, npages, shape,                                \* the remote site, as far as seen
    popup, view, calY, calM, yrWin, esc,               \* the date picker
    echo, pending, sel, tab,                           \* the page: echo, requested and rendered table
    pc, ccRet, ocRet,                                  \* control
    i, r, tin, tout,                                   \* loop counters
    current_page, all_data, before, k1, strat,         \* locals of the page walk
    idx, result, out, runErr,                          \* main
    atClick, fps, log, dayClick,                       \* what was observed
    prev,                                              \* the results of an earlier run
    rs,                                                \* a call of retry_on_stale on its own
    pn                                                 \* a cell put through the coercion of main

cfgv == <<ver, dates, alive, rs, pn>>
remv == <<pag, npages, shape>>
calv == <<popup, view, calY, calM, yrWin, esc>>
sitev == <<echo, pending, sel, tab>>
retv == <<ccRet, ocRet>>
loopv == <<i, r, tin, tout>>
walkv == <<current_page, all_data, before, k1, strat>>
mainv == <<idx, result, out, runErr>>
obsv == <<atClick, fps, log, dayClick, prev>>
vars == <<cfgv, remv, calv, sitev, pc, retv, loopv, walkv, mainv, obsv>>

\* ------------------------------------------------- the remote table
\* The page count and the cell layout of a date's table are fixed, and become
\* known when the table of that date is first rendered.
Unseen == 0 - 1
Shapes == {"ok", "short", "wide"}
PagStyles == {"numbers", "numbers+next", "next"}

NPages(d) == IF d \in DOMAIN npages THEN npages[d] ELSE IF d = Today THEN TodayPages ELSE 1

\* Page p of date d: RowsPerPage rows on every page but the last, which has one.
\* A row is its first cell (the transaction number) and its number of cells.
RowCount(d, p) == IF p < NPages(d) THEN RowsPerPage ELSE 1

Cells(d, p, k) ==
    IF d \in DOMAIN npages /\ p = NPages(d) /\ k = RowCount(d, p)
    THEN (CASE shape[d] = "short" -> ARITY - 1
            [] shape[d] = "wide" -> ARITY + 1
            [] OTHER -> ARITY)
    ELSE ARITY

Rows(d, p) ==
    IF p < 1 \/ p > NPages(d) THEN <<>>
    ELSE [k \in 1..RowCount(d, p) |-> [key |-> <<d, p, k>>, n |-> Cells(d, p, k)]]

\* The <tr> elements of the rendered table: the header row has no <td>.
TableRows(t) == <<[key |-> None, n |-> 0]>> \o Rows(t[1], t[2])

scrape_current_page(t) == SelectSeq(TableRows(t), LAMBDA row: row.n > 0)

first_row_key(t) == IF Rows(t[1], t[2]) = <<>> THEN None ELSE Rows(t[1], t[2])[1].key

\* The pagination control is rendered from the rendered table's page count.
NumberedButton(style, k) == style # "next" /\ k >= 1 /\ k <= NPages(tab[1])
NextButton(style) == style # "numbers" /\ NPages(tab[1]) >= 1

\* The page rendered for a request of page s[2] of a table of n pages.
Clamp(s, n) == <<s[1], IF s[2] > n THEN (IF n = 0 THEN 1 ELSE n) ELSE s[2]>>

\* ------------------------------------------------- the year grid
MinOf(S) == CHOOSE x \in S : \A y \in S : x <= y
MaxOf(S) == CHOOSE x \in S : \A y \in S : x >= y
WinOf(y) == (y - MinOf(Years)) \div YearWin
Visible(w) == {y \in Years : WinOf(y) = w}
Windows == {WinOf(y) : y \in Years}

\* ------------------------------------------------------------ Init
\* The state main starts from.
Fresh ==
    /\ popup = FALSE /\ view = "days" /\ calY = Today[1] /\ calM = Today[2]
    /\ yrWin = WinOf(Today[1]) /\ esc = FALSE
    /\ echo = NoText /\ pending = NoDate /\ sel = <<Today, 1>> /\ tab = <<Today, 1>>
    /\ pc = (IF ver = "v2" THEN "m_date" ELSE "m_get") /\ ccRet = "oc" /\ ocRet = "pick"
    /\ i = 0 /\ r = 0 /\ tin = 0 /\ tout = 0
    /\ current_page = 1 /\ all_data = <<>> /\ before = None /\ k1 = None /\ strat = 0
    /\ idx = 1
    /\ result = [n \in DOMAIN dates |-> <<"pending", "">>]
    /\ out = [n \in DOMAIN dates |-> <<>>]
    /\ runErr = <<"", "">>
    /\ atClick = "na" /\ fps = <<>> /\ log = <<>> /\ dayClick = "na"

InitRange(s, e) ==
    /\ ver \in {"v1", "v2", "v3"}
    /\ dates = daterange_inclusive(s, e)
    /\ alive = TRUE
    /\ pag = "unseen"
    /\ npages = [d \in {dates[n] : n \in DOMAIN dates} |-> Unseen]
    /\ shape = [d \in {dates[n] : n \in DOMAIN dates} |-> "ok"]
    /\ prev = <<>>
    /\ Fresh

\* ------------------------------------------------------ retry_on_stale
\* What one call of fn can do: return, raise StaleElementReferenceException,
\* or raise another exception.
Outcomes == {"ok", "stale", "other"}

\* A call retry_on_stale(fn, tries): fn[k] is what the k-th call of fn does,
\* calls the number of calls made, st how the call stands, val the call whose
\* result was returned.
RetryCalls ==
    [tries : 1..STALE_TRIES, fn : [1..STALE_TRIES -> Outcomes],
     calls : {0}, st : {"run"}, val : {0}]

NoRetry == [tries |-> STALE_TRIES, fn |-> [k \in 1..STALE_TRIES |-> "ok"],
            calls |-> 0, st |-> "idle", val |-> 0]

\* A handler that gives up at the first stale reference.
AlwaysLast(n, tries) == TRUE

\* if i == tries - 1: raise  (i counts from 0; n calls were made before this one)
LastTry(n, tries) == n = tries - 1

\* One pass through the body of the for loop.
RetryStep ==
    /\ rs.st = "run"
    /\ IF rs.calls >= rs.tries
       THEN rs' = [rs EXCEPT !.st = "none"]
       ELSE LET o == rs.fn[rs.calls + 1] IN
            rs' = [rs EXCEPT
                     !.calls = rs.calls + 1,
                     !.st = IF o = "ok" THEN "returned"
                            ELSE IF o = "other" THEN "other"
                            ELSE IF LastTry(rs.calls, rs.tries) THEN "stale"
                            ELSE "run",
                     !.val = IF o = "ok" THEN rs.calls + 1 ELSE 0]
    /\ UNCHANGED <<ver, dates, alive, pn>>
    /\ UNCHANGED <<remv, calv, sitev, pc, retv, loopv, walkv, mainv, obsv>>

\* ------------------------------------------------------- parse_numeric
MaxLen == 4

\* The text of a cell is a sequence of characters; a cell may also be absent.
Alphabet == {"0", "5", ".", ",", " ", "-"}

Strings(n) == UNION {[1..k -> Alphabet] : k \in 0..n}

Example == <<"1", ",", "2", "3", "4", ".", "5", "0">>

Some(s) == [some |-> TRUE, s |-> s]
Absent == [some |-> FALSE, s |-> <<>>]

\* What a cell of the output holds: nothing, a number m / 10^k written <<m, k>>
\* with no trailing zero in the fraction, or the text as it was read.
NoNumber == [kind |-> "absent", num |-> <<0, 0>>, s |-> <<>>]
Number(n) == [kind |-> "number", num |-> n, s |-> <<>>]
Text(v) == [kind |-> IF v.some THEN "text" ELSE "absent", num |-> <<0, 0>>, s |-> v.s]

Digit == <<"0", "1", "2", "3", "4", "5", "6", "7", "8", "9">>
isdigit(c) == \E n \in DOMAIN Digit : Digit[n] = c
DigitVal(c) == (CHOOSE n \in DOMAIN Digit : Digit[n] = c) - 1

\* str.strip(): leading and trailing white space removed.
RECURSIVE lstrip(_)
lstrip(s) == IF s # <<>> /\ Head(s) = " " THEN lstrip(Tail(s)) ELSE s

RECURSIVE rstrip(_)
rstrip(s) ==
    IF s # <<>> /\ s[Len(s)] = " " THEN rstrip(SubSeq(s, 1, Len(s) - 1)) ELSE s

strip(s) == rstrip(lstrip(s))

\* A filter that keeps the digits only.
DigitsOnly(c) == isdigit(c)

\* c.isdigit() or c == "."
IsKept(c) == isdigit(c) \/ c = "."

RECURSIVE IntOf(_)
IntOf(s) ==
    IF s = <<>> THEN 0 ELSE IntOf(SubSeq(s, 1, Len(s) - 1)) * 10 + DigitVal(s[Len(s)])

RECURSIVE Pow10(_)
Pow10(k) == IF k = 0 THEN 1 ELSE 10 * Pow10(k - 1)

RECURSIVE Norm(_)
Norm(n) == IF n[2] > 0 /\ n[1] % 10 = 0 THEN Norm(<<n[1] \div 10, n[2] - 1>>) ELSE n

\* float() of a text of digits and dots: digits, then at most one dot, then
\* digits, with a digit somewhere; anything else is a ValueError.
Dots(s) == {k \in DOMAIN s : s[k] = "."}

ValueError(clean) ==
    Cardinality(Dots(clean)) > 1 \/ Cardinality(Dots(clean)) = Len(clean)

float(clean) ==
    LET p == IF Dots(clean) = {} THEN Len(clean) + 1
             ELSE CHOOSE k \in Dots(clean) : TRUE
        whole == SubSeq(clean, 1, p - 1)
        frac == SubSeq(clean, p + 1, Len(clean))
    IN  Norm(<<IntOf(whole) * Pow10(Len(frac)) + IntOf(frac), Len(frac)>>)

parse_numeric(value) ==
    IF ~value.some THEN NoNumber
    ELSE LET s == strip(value.s) IN
         IF s = <<>> THEN NoNumber
         ELSE LET clean == SelectSeq(s, IsKept) IN
              IF clean = <<>> THEN NoNumber
              ELSE IF ValueError(clean) THEN NoNumber
              ELSE Number(float(clean))

\* The columns of the output and the three main puts through parse_numeric.
header == <<"Transact No.", "Symbol", "Buyer", "Seller", "Quantity", "Rate", "Amount">>

Coerced == {"Quantity", "Rate", "Amount"}

Coerce(col, value) == IF header[col] \in Coerced THEN parse_numeric(value) ELSE Text(value)

\* A cell of column col before and after the coercion.
ParseCalls ==
    [col : DOMAIN header,
     value : {Absent} \cup {Some(s) : s \in Strings(MaxLen) \cup {Example}},
     st : {"read"}, out : {NoNumber}]

NoParse == [col |-> 1, value |-> Absent, st |-> "idle", out |-> NoNumber]

CoerceCell ==
    /\ pn.st = "read"
    /\ pn' = [pn EXCEPT !.st = "done", !.out = Coerce(pn.col, pn.value)]
    /\ UNCHANGED <<ver, dates, alive, rs>>
    /\ UNCHANGED <<remv, calv, sitev, pc, retv, loopv, walkv, mainv, obsv>>

Init == InitRange(START_DATE, END_DATE) /\ rs = NoRetry /\ pn = NoParse

\* ------------------------------------------------- the remote site
\* driver.get / driver.refresh: the page as freshly loaded.
Loaded ==
    /\ popup' = FALSE /\ view' = "days" /\ calY' = Today[1] /\ calM' = Today[2]
    /\ yrWin' = WinOf(Today[1]) /\ esc' = FALSE
    /\ echo' \in {Shown(Today), NoText}
    /\ pending' = NoDate /\ sel' = <<Today, 1>> /\ tab' = <<Today, 1>>

\* The popup appears, showing the month of the selected date.
PopupOpens ==
    /\ popup' = TRUE /\ view' = "days"
    /\ calY' = sel[1][1] /\ calM' = sel[1][2] /\ yrWin' = WinOf(sel[1][1])

PopupCloses ==
    /\ popup' = FALSE /\ view' = "days"
    /\ calY' = Today[1] /\ calM' = Today[2] /\ yrWin' = WinOf(Today[1])

\* The application accepts the clicked day: the echo shows it and the table of
\* that date is requested; the popup may stay open.
EnvApply ==
    /\ alive /\ pending # NoDate
    /\ echo' = Shown(pending) /\ sel' = <<pending, 1>> /\ pending' = NoDate
    /\ tab' = tab
    /\ \/ popup /\ PopupCloses /\ esc' = esc
       \/ UNCHANGED calv
    /\ UNCHANGED <<cfgv, remv, pc, retv, loopv, walkv, mainv, obsv>>

\* The requested table arrives and is rendered.
EnvRender ==
    /\ alive
    /\ IF sel[1] \in DOMAIN npages /\ npages[sel[1]] = Unseen
       THEN \E n \in 0..MaxPages, sh \in Shapes :
               /\ n = 0 => sh = "ok"
               /\ npages' = [npages EXCEPT ![sel[1]] = n]
               /\ shape' = [shape EXCEPT ![sel[1]] = sh]
               /\ tab' = Clamp(sel, n) /\ sel' = Clamp(sel, n)
       ELSE /\ tab # Clamp(sel, NPages(sel[1]))
            /\ tab' = Clamp(sel, NPages(sel[1])) /\ sel' = tab'
            /\ UNCHANGED <<npages, shape>>
    /\ UNCHANGED <<echo, pending, pag>>
    /\ UNCHANGED <<cfgv, calv, pc, retv, loopv, walkv, mainv, obsv>>

\* The ESCAPE key press takes effect.
EnvDismiss ==
    /\ alive /\ esc /\ popup
    /\ PopupCloses /\ esc' = FALSE
    /\ UNCHANGED <<cfgv, remv, sitev, pc, retv, loopv, walkv, mainv, obsv>>

\* ------------------------------------------------------ exceptions
ResetLocals ==
    /\ i' = 0 /\ r' = 0 /\ tin' = 0 /\ tout' = 0
    /\ current_page' = 1 /\ all_data' = <<>> /\ before' = None /\ k1' = None /\ strat' = 0
    /\ ccRet' = "oc" /\ ocRet' = "pick"

\* An exception leaves the date cycle. scrape_floorsheet.py catches it per date
\* and goes on; the other two scripts have no handler but the finally of main.
CatchesPerDate == ver = "v2"

\* A main without the finally clause: the exception ends the process at once.
NoFinally == "done"

\* try: ... finally: driver.quit() -- where an exception that leaves main goes.
Finally == "m_quit"

Raise(kind, at) ==
    /\ result' = [result EXCEPT ![idx] = <<kind, at>>]
    /\ IF CatchesPerDate
       THEN pc' = "m_date" /\ idx' = idx + 1 /\ runErr' = runErr
       ELSE pc' = Finally /\ idx' = idx /\ runErr' = <<kind, at>>
    /\ out' = out
    /\ ResetLocals

target == dates[idx]

\* ------------------------------------------------------------ main
MainGet ==
    /\ pc = "m_get" /\ ver # "v2"
    /\ Loaded
    /\ pc' = "m_date"
    /\ UNCHANGED <<cfgv, remv, retv, loopv, walkv, mainv, obsv>>

\* The head of the loop over the dates.
\* On a lost session the first driver call of the cycle raises.
MainNextDate ==
    /\ pc = "m_date"
    /\ IF idx > Len(dates)
       THEN /\ pc' = "m_quit"
            /\ UNCHANGED <<calv, sitev, retv, loopv, walkv, mainv, fps, log>>
       ELSE IF ~alive
       THEN /\ Raise("WebDriverException", "session")
            /\ log' = Append(log, target)
            /\ UNCHANGED <<calv, sitev, fps>>
       ELSE /\ IF ver = "v2" \/ (ver = "v3" /\ idx > 1) THEN Loaded ELSE UNCHANGED <<calv, sitev>>
            /\ ResetLocals
            /\ fps' = <<>>
            /\ log' = Append(log, target)
            /\ pc' = IF ver = "v3" THEN "cc" ELSE "oc_click"
            /\ UNCHANGED mainv
    /\ UNCHANGED <<cfgv, remv, atClick, dayClick, prev>>

\* The browser session is lost: the driver call the script is in, or makes next,
\* raises WebDriverException, and so does every later one.
SessionFails ==
    /\ alive /\ idx \in DOMAIN dates /\ pc \notin {"m_get", "m_date", "m_quit", "done"}
    /\ alive' = FALSE
    /\ Raise("WebDriverException", "session")
    /\ PopupCloses /\ esc' = FALSE
    /\ echo' = NoText /\ pending' = NoDate /\ sel' = <<Today, 1>> /\ tab' = <<Today, 1>>
    /\ UNCHANGED <<ver, dates, rs, pn, remv, obsv>>

MainQuit ==
    /\ pc = "m_quit"
    /\ pc' = "done"
    /\ PopupCloses /\ esc' = FALSE
    /\ echo' = NoText /\ pending' = NoDate /\ sel' = <<Today, 1>> /\ tab' = <<Today, 1>>
    /\ UNCHANGED <<cfgv, remv, retv, loopv, walkv, mainv, obsv>>

\* --------------------------------------------------- close_calendar
CloseReturn == IF ccRet = "oc" THEN "oc_click" ELSE "cc"

\* What send_keys(ESCAPE) on the body can do: the page takes the key and will
\* dismiss the popup, the page ignores it, or the call raises.
KeyPress == {"dismisses", "ignored", "raises"}

\* A key-press whose exception is not handled.
Unhandled(o) == o = "raises"

\* try: send_keys except Exception: pass -- no outcome leaves close_calendar.
Propagates(o) == FALSE

CloseCalendar ==
    /\ pc = "cc"
    /\ IF ~popup
       THEN /\ pc' = CloseReturn
            /\ ccRet' = "oc" /\ ocRet' = IF ccRet = "rec" THEN "rec" ELSE ocRet
            /\ UNCHANGED <<calv, loopv, walkv, mainv>>
       ELSE \E o \in KeyPress :
            IF Propagates(o)
            THEN /\ Raise("Exception", "close_calendar")
                 /\ UNCHANGED calv
            ELSE /\ pc' = "cc_poll"
                 /\ esc' = (o = "dismisses")
                 /\ i' = 0
                 /\ UNCHANGED <<popup, view, calY, calM, yrWin, r, tin, tout, retv>>
                 /\ UNCHANGED <<walkv, mainv>>
    /\ UNCHANGED <<cfgv, remv, sitev, obsv>>

CloseCalendarPoll ==
    /\ pc = "cc_poll"
    /\ IF i < CLOSE_POLLS /\ popup
       THEN /\ i' = i + 1
            /\ UNCHANGED <<pc, retv, esc>>
       ELSE /\ pc' = CloseReturn
            /\ ccRet' = "oc" /\ ocRet' = IF ccRet = "rec" THEN "rec" ELSE ocRet
            /\ i' = 0 /\ esc' = FALSE
    /\ UNCHANGED <<popup, view, calY, calM, yrWin, r, tin, tout>>
    /\ UNCHANGED <<cfgv, remv, sitev, walkv, mainv, obsv>>

\* ---------------------------------------------------- open_calendar
find_date_input == echo # NoText

OpenCalendarClick ==
    /\ pc = "oc_click"
    /\ \/ /\ ver = "v2" \/ find_date_input
          /\ atClick' = IF popup THEN "open" ELSE "closed"
          /\ \/ PopupOpens
             \/ PopupCloses
          /\ pc' = "oc_wait"
          /\ UNCHANGED <<esc, fps, log, dayClick, prev>>
          /\ UNCHANGED <<cfgv, remv, sitev, retv, loopv, walkv, mainv>>
       \/ /\ ver # "v2" /\ ~find_date_input
          /\ Raise("RuntimeError", "open_calendar")
          /\ UNCHANGED <<cfgv, remv, calv, sitev, obsv>>

wait_qdate == popup

OpenCalendarWait ==
    /\ pc = "oc_wait"
    /\ \/ /\ wait_qdate
          /\ pc' = IF ocRet = "rec" THEN "em_next" ELSE IF ver = "v2" THEN "emy" ELSE "pd_year"
          /\ ocRet' = "pick"
          /\ UNCHANGED <<cfgv, remv, calv, sitev, ccRet, loopv, walkv, mainv, obsv>>
       \/ /\ ~wait_qdate
          /\ Raise("TimeoutException", "open_calendar")
          /\ UNCHANGED <<cfgv, remv, calv, sitev, obsv>>

\* ---------------------------------------- get_current_year, set_year
get_current_year == sel[1][1]

\* pick_date parses the date string main hands it.
dt == strptime(strftime(target))

SetMonthEntry == IF ver = "v3" THEN "em_try" ELSE "sm1"

PickDateYear ==
    /\ pc = "pd_year"
    /\ pc' = IF get_current_year # dt[1] THEN "sy_btn" ELSE SetMonthEntry
    /\ UNCHANGED <<cfgv, remv, calv, sitev, retv, loopv, walkv, mainv, obsv>>

SetYearOpenGrid ==
    /\ pc = "sy_btn"
    /\ \/ /\ popup /\ view = "days"
          /\ view' = "years" /\ yrWin' = WinOf(calY) /\ i' = 0
          /\ pc' = "sy_loop"
          /\ UNCHANGED <<popup, calY, calM, esc, r, tin, tout>>
          /\ UNCHANGED <<cfgv, remv, sitev, retv, walkv, mainv, obsv>>
       \/ /\ ~(popup /\ view = "days")
          /\ Raise("TimeoutException", "set_year")
          /\ UNCHANGED <<cfgv, remv, calv, sitev, obsv>>

\* The two arrows taken for one another.
Reversed(year, years) == IF years # {} /\ year < MinOf(years) THEN "next" ELSE "prev"

\* The arrow set_year clicks when the target year is not among the visible ones.
YearArrow(year, years) == IF years # {} /\ year < MinOf(years) THEN "prev" ELSE "next"

\* A search loop without its step limit.
NeverDone(n) == FALSE

YearLoopDone(n) == n >= YEAR_STEPS

\* The grid after an arrow click: one window further, or unmoved.
ArrowMoves(w, dir) ==
    {w} \cup ((IF dir = "prev" THEN {w - 1} ELSE {w + 1}) \cap Windows)

SetYearStep ==
    /\ pc = "sy_loop"
    /\ \/ /\ ~YearLoopDone(i) /\ dt[1] \in Visible(yrWin)
          /\ calY' = dt[1] /\ view' = "days" /\ i' = 0
          /\ pc' = SetMonthEntry
          /\ UNCHANGED <<popup, calM, yrWin, esc, r, tin, tout>>
          /\ UNCHANGED <<cfgv, remv, sitev, retv, walkv, mainv, obsv>>
       \/ /\ ~YearLoopDone(i) /\ dt[1] \notin Visible(yrWin)
          /\ yrWin' \in ArrowMoves(yrWin, YearArrow(dt[1], Visible(yrWin)))
          /\ i' = i + 1
          /\ UNCHANGED <<popup, view, calY, calM, esc, r, tin, tout, pc>>
          /\ UNCHANGED <<cfgv, remv, sitev, retv, walkv, mainv, obsv>>
       \/ /\ YearLoopDone(i)
          /\ Raise("RuntimeError", "set_year")
          /\ UNCHANGED <<cfgv, remv, calv, sitev, obsv>>

\* ------------------------- ensure_month_grid_open, set_month (v3)
MonthViewPresent == popup /\ view = "months"
MonthNavClickable == popup /\ view = "days"

\* What the page shows after a click on the month button of the navigation bar.
AfterMonthNavClick == {"months", "days"}

\* _try_open under retry_on_stale, inside the loop of ensure_month_grid_open.
TryOpen ==
    /\ pc = "em_try"
    /\ \/ /\ MonthViewPresent
          /\ pc' = "sm_click" /\ tin' = 0 /\ r' = 0
          /\ UNCHANGED <<i, tout, retv, calv>>
       \/ /\ ~MonthViewPresent
          /\ IF MonthNavClickable
             THEN /\ view' \in AfterMonthNavClick
                  /\ pc' = "em_wait"
                  /\ UNCHANGED <<popup, calY, calM, yrWin, esc, retv, loopv>>
             ELSE /\ pc' = "cc" /\ ccRet' = "rec" /\ tin' = 0
                  /\ UNCHANGED <<calv, ocRet, i, r, tout>>
       \/ /\ ~MonthViewPresent /\ MonthNavClickable
          /\ IF tin < STALE_TRIES - 1
             THEN /\ tin' = tin + 1
                  /\ UNCHANGED <<pc, retv>>
             ELSE /\ pc' = "cc" /\ ccRet' = "rec" /\ tin' = 0
                  /\ UNCHANGED ocRet
          /\ UNCHANGED <<calv, i, r, tout>>
    /\ UNCHANGED <<cfgv, remv, sitev, walkv, mainv, obsv>>

TryOpenWait ==
    /\ pc = "em_wait"
    /\ IF MonthViewPresent
       THEN /\ pc' = "sm_click" /\ tin' = 0 /\ r' = 0
            /\ UNCHANGED retv
       ELSE /\ pc' = "cc" /\ ccRet' = "rec" /\ tin' = 0
            /\ UNCHANGED <<r, ocRet>>
    /\ UNCHANGED <<i, tout>>
    /\ UNCHANGED <<cfgv, remv, calv, sitev, walkv, mainv, obsv>>

\* After close_calendar and open_calendar in the except clause: the next round.
\* A loop that always has another round.
AlwaysLeft(n) == TRUE

\* for _ in range(3): n rounds were begun before the one that just failed.
RoundsLeft(n) == n + 1 < GRID_ROUNDS

EnsureNextRound ==
    /\ pc = "em_next"
    /\ \/ /\ RoundsLeft(r)
          /\ r' = r + 1 /\ pc' = "em_try"
          /\ UNCHANGED <<i, tin, tout>>
          /\ UNCHANGED <<cfgv, remv, calv, sitev, retv, walkv, mainv, obsv>>
       \/ /\ ~RoundsLeft(r)
          /\ Raise("TimeoutException", "ensure_month_grid_open")
          /\ UNCHANGED <<cfgv, remv, calv, sitev, obsv>>

\* The month button of the grid is clicked; a stale reference restarts _do.
SetMonthClick ==
    /\ pc = "sm_click"
    /\ \/ /\ MonthViewPresent
          /\ calM' = dt[2] /\ view' = "days"
          /\ pc' = "cd" /\ tout' = 0
          /\ UNCHANGED <<popup, calY, yrWin, esc, i, r, tin>>
          /\ UNCHANGED <<cfgv, remv, sitev, retv, walkv, mainv, obsv>>
       \/ /\ MonthViewPresent /\ tout < STALE_TRIES - 1
          /\ tout' = tout + 1 /\ pc' = "em_try"
          /\ UNCHANGED <<i, r, tin>>
          /\ UNCHANGED <<cfgv, remv, calv, sitev, retv, walkv, mainv, obsv>>
       \/ /\ MonthViewPresent /\ tout >= STALE_TRIES - 1
          /\ Raise("StaleElementReferenceException", "set_month")
          /\ UNCHANGED <<cfgv, remv, calv, sitev, obsv>>

DayViewPresent == popup /\ view = "days"
InMonthDay(d) == d >= 1 /\ d <= DaysIn(calY, calM)

\* ------------------------------------------------ set_month (part_000)
SetMonthOpen ==
    /\ pc = "sm1"
    /\ \/ /\ MonthViewPresent \/ MonthNavClickable
          /\ view' \in (IF MonthViewPresent THEN {view} ELSE AfterMonthNavClick)
          /\ pc' = "sm1_wait"
          /\ UNCHANGED <<popup, calY, calM, yrWin, esc>>
          /\ UNCHANGED <<cfgv, remv, sitev, retv, loopv, walkv, mainv, obsv>>
       \/ /\ ~(MonthViewPresent \/ MonthNavClickable)
          /\ Raise("TimeoutException", "set_month")
          /\ UNCHANGED <<cfgv, remv, calv, sitev, obsv>>

SetMonthPick ==
    /\ pc = "sm1_wait"
    /\ \/ /\ MonthViewPresent
          /\ calM' = dt[2] /\ view' = "days"
          /\ pc' = "cd"
          /\ UNCHANGED <<popup, calY, yrWin, esc>>
          /\ UNCHANGED <<cfgv, remv, sitev, retv, loopv, walkv, mainv, obsv>>
       \/ /\ MonthViewPresent
          /\ Raise("StaleElementReferenceException", "set_month")
          /\ UNCHANGED <<cfgv, remv, calv, sitev, obsv>>
       \/ /\ ~MonthViewPresent
          /\ Raise("TimeoutException", "set_month")
          /\ UNCHANGED <<cfgv, remv, calv, sitev, obsv>>

\* ------------------------------- ensure_month_year (scrape_floorsheet.py)
\* The buttons of the navigation bar of the day view, in document order.
NavButtons == <<"prev_month", "month", "next_month", "prev_year", "year", "next_year">>

\* click_nav_next_prev: the first button for 'prev', the last one for 'next'.
click_nav_next_prev(direction) ==
    IF direction = "prev" THEN NavButtons[1] ELSE NavButtons[Len(NavButtons)]

\* The month the calendar shows after a click on a navigation arrow.
NavShown(y, m, btn) ==
    CASE btn = "prev_month" -> (IF m = 1 THEN <<y - 1, 12>> ELSE <<y, m - 1>>)
      [] btn = "next_month" -> (IF m = 12 THEN <<y + 1, 1>> ELSE <<y, m + 1>>)
      [] btn = "prev_year" -> <<y - 1, m>>
      [] btn = "next_year" -> <<y + 1, m>>
      [] OTHER -> <<y, m>>

MonthBefore(y1, m1, y2, m2) == y1 < y2 \/ (y1 = y2 /\ m1 < m2)

MonthLoopDone(n) == n >= MONTH_STEPS

EnsureMonthYear ==
    /\ pc = "emy"
    /\ \/ /\ ~MonthLoopDone(i) /\ calM = dt[2] /\ calY = dt[1]
          /\ pc' = "cd2" /\ i' = 0
          /\ UNCHANGED <<r, tin, tout, calv>>
          /\ UNCHANGED <<cfgv, remv, sitev, retv, walkv, mainv, obsv>>
       \/ /\ ~MonthLoopDone(i) /\ ~(calM = dt[2] /\ calY = dt[1])
          /\ LET btn == click_nav_next_prev(
                            IF MonthBefore(calY, calM, dt[1], dt[2]) THEN "next" ELSE "prev")
                 shown == NavShown(calY, calM, btn)
             IN  IF shown[1] \in Years
                 THEN calY' = shown[1] /\ calM' = shown[2]
                 ELSE UNCHANGED <<calY, calM>>
          /\ i' = i + 1
          /\ UNCHANGED <<pc, r, tin, tout, popup, view, yrWin, esc>>
          /\ UNCHANGED <<cfgv, remv, sitev, retv, walkv, mainv, obsv>>
       \/ /\ MonthLoopDone(i)
          /\ Raise("RuntimeError", "ensure_month_year")
          /\ UNCHANGED <<cfgv, remv, calv, sitev, obsv>>

\* The day grid of a month, in document order: the last days of the month
\* before fill the first week up to the 1st, the days of the month follow, the
\* first days of the month after fill the last week.
DayOfWeek(y, m, d) ==
    LET t == <<0, 3, 2, 5, 0, 3, 5, 1, 4, 6, 2, 4>>
        yy == IF m < 3 THEN y - 1 ELSE y
    IN  (yy + (yy \div 4) - (yy \div 100) + (yy \div 400) + t[m] + d) % 7

DaysInPrev(y, m) == IF m = 1 THEN DaysIn(y - 1, 12) ELSE DaysIn(y, m - 1)

LeadFill(y, m) ==
    {d \in 1..DaysInPrev(y, m) : d > DaysInPrev(y, m) - DayOfWeek(y, m, 1)}

TrailFill(y, m) ==
    {d \in 1..6 : d <= (7 - ((DayOfWeek(y, m, 1) + DaysIn(y, m)) % 7)) % 7}

\* A cell of the grid as click_day meets it: kind "in" for a day of the
\* displayed month, "fill" for a cell of an adjacent month.  On the displayed
\* grid a filler cell may be visible or hidden, and a call on an element may
\* raise; usable records whether is_displayed() and is_enabled() both returned
\* True.
\* First candidate: buttons with the day's text under any calendar item.
\* Only the days of the displayed month are buttons.
ButtonCandidates(d) == IF InMonthDay(d) THEN <<"in">> ELSE <<>>

\* Second candidate: any element with the day's text under any calendar item.
AnyCandidates(d) ==
    (IF d \in LeadFill(calY, calM) THEN <<"fill">> ELSE <<>>)
    \o (IF InMonthDay(d) THEN <<"in">> ELSE <<>>)
    \o (IF d \in TrailFill(calY, calM) THEN <<"fill">> ELSE <<>>)

\* The elements click_day goes through, in order.
DayCandidates(d) == ButtonCandidates(d) \o AnyCandidates(d)

\* click_day of scrape_floorsheet.py: the first displayed, enabled match.
\* k is the first candidate whose checks return True; a click on a filler cell
\* selects nothing.
ClickDayCandidates ==
    /\ pc = "cd2"
    /\ \/ /\ DayViewPresent
          /\ \E k \in DOMAIN DayCandidates(dt[3]) :
                /\ dayClick' = DayCandidates(dt[3])[k]
                /\ pending' = IF DayCandidates(dt[3])[k] = "in"
                              THEN <<calY, calM, dt[3]>> ELSE pending
          /\ pc' = "asof" /\ i' = 0
          /\ UNCHANGED <<echo, sel, tab, r, tin, tout>>
          /\ UNCHANGED <<atClick, fps, log, prev>>
          /\ UNCHANGED <<cfgv, remv, calv, retv, walkv, mainv>>
       \/ /\ Raise("RuntimeError", "click_day")
          /\ UNCHANGED <<cfgv, remv, calv, sitev, obsv>>

\* read_asof_date: the text after 'As of:', if it holds a slash.
read_asof_date(v) == IF v # NoText /\ v[1] = "/" THEN v ELSE None

AsofLoopDone(n) == n >= ASOF_POLLS

\* The retry loop of set_floorsheet_date_by_calendar.
ConfirmAsof ==
    /\ pc = "asof"
    /\ \/ /\ ~AsofLoopDone(i) /\ read_asof_date(echo) = replace(strftime(target), "-", "/")
          /\ pc' = "w_scrape" /\ i' = 0
          /\ UNCHANGED <<r, tin, tout>>
          /\ UNCHANGED <<cfgv, remv, calv, sitev, retv, walkv, mainv, obsv>>
       \/ /\ ~AsofLoopDone(i) /\ read_asof_date(echo) # replace(strftime(target), "-", "/")
          /\ i' = i + 1
          /\ UNCHANGED <<pc, r, tin, tout>>
          /\ UNCHANGED <<cfgv, remv, calv, sitev, retv, walkv, mainv, obsv>>
       \/ /\ AsofLoopDone(i)
          /\ Raise("RuntimeError", "set_floorsheet_date_by_calendar")
          /\ UNCHANGED <<cfgv, remv, calv, sitev, obsv>>

\* ---------------------------------------------------------- click_day
DayTries == IF ver = "v3" THEN STALE_TRIES ELSE 1

ClickDay ==
    /\ pc = "cd"
    /\ \/ /\ DayViewPresent /\ InMonthDay(dt[3])
          /\ pending' = <<calY, calM, dt[3]>>
          /\ dayClick' = "in"
          /\ pc' = "wda" /\ tout' = 0
          /\ UNCHANGED <<echo, sel, tab, i, r, tin>>
          /\ UNCHANGED <<atClick, fps, log, prev>>
          /\ UNCHANGED <<cfgv, remv, calv, retv, walkv, mainv>>
       \/ /\ DayViewPresent /\ InMonthDay(dt[3]) /\ tout < DayTries - 1
          /\ tout' = tout + 1
          /\ UNCHANGED <<pc, i, r, tin>>
          /\ UNCHANGED <<cfgv, remv, calv, sitev, retv, walkv, mainv, obsv>>
       \/ /\ DayViewPresent /\ InMonthDay(dt[3]) /\ tout >= DayTries - 1
          /\ Raise("StaleElementReferenceException", "click_day")
          /\ UNCHANGED <<cfgv, remv, calv, sitev, obsv>>
       \/ /\ ~(DayViewPresent /\ InMonthDay(dt[3]))
          /\ Raise("TimeoutException", "click_day")
          /\ UNCHANGED <<cfgv, remv, calv, sitev, obsv>>

\* --------------------------------------------------- wait_date_applied
\* _ok: the date input shows the target, with slashes or with dashes.
\* An echo check that is content with any date in the input.
AnyDateShown(v, target_ymd) == v # NoText

date_applied(v, target_ymd) ==
    /\ v # NoText
    /\ v = replace(target_ymd, "-", "/") \/ v = target_ymd

AfterPickDate == IF ver = "v3" THEN "wtr_rows" ELSE "w_scrape"

WaitDateApplied ==
    /\ pc = "wda"
    /\ \/ /\ date_applied(echo, strftime(target))
          /\ pc' = AfterPickDate
          /\ UNCHANGED <<cfgv, remv, calv, sitev, retv, loopv, walkv, mainv, obsv>>
       \/ /\ ~date_applied(echo, strftime(target))
          /\ Raise("TimeoutException", "wait_date_applied")
          /\ UNCHANGED <<cfgv, remv, calv, sitev, obsv>>

\* ---------------------------------------------------- wait_table_ready
RowsPresent == Rows(tab[1], tab[2]) # <<>>

WaitTableRows ==
    /\ pc = "wtr_rows"
    /\ \/ /\ RowsPresent
          /\ pc' = "wtr_k1"
          /\ UNCHANGED <<cfgv, remv, calv, sitev, retv, loopv, walkv, mainv, obsv>>
       \/ /\ ~RowsPresent
          /\ Raise("TimeoutException", "wait_table_ready")
          /\ UNCHANGED <<cfgv, remv, calv, sitev, obsv>>

WaitTableKey ==
    /\ pc = "wtr_k1"
    /\ k1' = first_row_key(tab) /\ i' = 0
    /\ pc' = "wtr_loop"
    /\ UNCHANGED <<r, tin, tout, current_page, all_data, before, strat>>
    /\ UNCHANGED <<cfgv, remv, calv, sitev, retv, mainv, obsv>>

\* Two equal, truthy keys read one sleep apart count as a ready table.
Stable(a, b) == b # None /\ b = a

WaitTableStable ==
    /\ pc = "wtr_loop"
    /\ IF i < STABLE_POLLS /\ ~Stable(k1, first_row_key(tab))
       THEN /\ k1' = first_row_key(tab) /\ i' = i + 1
            /\ UNCHANGED pc
       ELSE /\ k1' = None /\ i' = 0
            /\ pc' = "w_scrape"
    /\ UNCHANGED <<r, tin, tout, current_page, all_data, before, strat>>
    /\ UNCHANGED <<cfgv, remv, calv, sitev, retv, mainv, obsv>>

\* ------------------------------------------------------- the page walk
Scrape ==
    /\ pc = "w_scrape"
    /\ all_data' = all_data \o scrape_current_page(tab)
    /\ fps' = Append(fps, first_row_key(tab))
    /\ before' = None
    /\ pc' = IF ver = "v3" THEN "g_before" ELSE "g_click1"
    /\ UNCHANGED <<current_page, k1, strat, atClick, log, dayClick, prev>>
    /\ UNCHANGED <<cfgv, remv, calv, sitev, retv, loopv, mainv>>

\* go_to_next_page of python_scrape_floorsheet.py
GoBefore ==
    /\ pc = "g_before"
    /\ before' = first_row_key(tab)
    /\ pc' = "g_click"
    /\ UNCHANGED <<current_page, all_data, k1, strat>>
    /\ UNCHANGED <<cfgv, remv, calv, sitev, retv, loopv, mainv, obsv>>

\* A click on an enabled 'next' control requests the following page.
NextClick(s) == IF s[2] < NPages(tab[1]) THEN <<s[1], s[2] + 1>> ELSE s

\* The layout of the pagination control, known from the first look at it.
StylesSeen == IF pag = "unseen" THEN PagStyles ELSE {pag}

\* A search that prefers the arrow to the numbered control.
ArrowFirst(style, p) ==
    IF NextButton(style) THEN 2 ELSE IF NumberedButton(style, p) THEN 1 ELSE 0

\* The control go_to_next_page clicks: 1 the numbered button, 2 the arrow, 0 none.
Strategy(style, p) ==
    IF NumberedButton(style, p) THEN 1 ELSE IF NextButton(style) THEN 2 ELSE 0

GoClick ==
    /\ pc = "g_click"
    /\ \E style \in StylesSeen :
        /\ pag' = style
        /\ strat' = Strategy(style, current_page + 1)
        /\ sel' = CASE strat' = 1 -> <<sel[1], current_page + 1>>
                    [] strat' = 2 -> NextClick(sel)
                    [] OTHER -> sel
        /\ pc' = IF strat' = 0 THEN "validate" ELSE "g_wait"
        /\ before' = IF strat' = 0 THEN None ELSE before
        /\ UNCHANGED <<current_page, all_data, k1>>
    /\ UNCHANGED <<echo, pending, tab, npages, shape>>
    /\ UNCHANGED <<cfgv, calv, retv, loopv, mainv, obsv>>

\* go_to_next_page of the two other scripts: the numbered control or nothing.
GoClickNumbered ==
    /\ pc = "g_click1"
    /\ \E style \in StylesSeen :
        /\ pag' = style
        /\ \/ /\ NumberedButton(style, current_page + 1)
              /\ before' = first_row_key(tab)
              /\ sel' = <<sel[1], current_page + 1>>
              /\ strat' = 1 /\ pc' = "g_wait"
              /\ UNCHANGED <<current_page, all_data, k1>>
           \/ /\ ~NumberedButton(style, current_page + 1)
              /\ pc' = "validate"
              /\ UNCHANGED <<sel, walkv>>
    /\ UNCHANGED <<echo, pending, tab, npages, shape>>
    /\ UNCHANGED <<cfgv, calv, retv, loopv, mainv, obsv>>

\* The wait after the click: the first cell changed, or (no row before) a table.
\* A click that is not followed by a wait for the table to change.
NoPageWait(b, t) == TRUE

PageChanged(b, t) == IF b # None THEN first_row_key(t) # b ELSE TRUE

\* What go_to_next_page returns once its wait is over.
GoResult(s, b, t) == IF s = 2 /\ b # None /\ first_row_key(t) = b THEN FALSE ELSE TRUE

\* A page index that is not advanced.
SameIndex(p) == p

\* current_page += 1, after go_to_next_page returned True.
NextIndex(p) == p + 1

GoWait ==
    /\ pc = "g_wait"
    /\ \/ /\ PageChanged(before, tab)
          /\ IF GoResult(strat, before, tab)
             THEN /\ current_page' = NextIndex(current_page)
                  /\ pc' = "w_scrape"
                  /\ before' = before
             ELSE /\ current_page' = current_page
                  /\ pc' = "validate"
                  /\ before' = None
          /\ strat' = 0
          /\ UNCHANGED <<all_data, k1>>
          /\ UNCHANGED <<cfgv, remv, calv, sitev, retv, loopv, mainv, obsv>>
       \/ /\ ~PageChanged(before, tab)
          /\ Raise("TimeoutException", "go_to_next_page")
          /\ UNCHANGED <<cfgv, remv, calv, sitev, obsv>>

\* ------------------------------------------- validation and output
\* The column count of DataFrame(all_data): that of the longest row.
shape1(data) == IF data = <<>> THEN 0 ELSE MaxOf({data[k].n : k \in DOMAIN data})

\* An empty frame is replaced by an empty frame with the header.
\* An arity check that every table passes.
AnyShape(data) == ARITY

Columns(data) == IF data = <<>> THEN ARITY ELSE shape1(data)

Validate ==
    /\ pc = "validate"
    /\ \/ /\ Columns(all_data) = ARITY
          /\ out' = [out EXCEPT ![idx] = all_data]
          /\ result' = [result EXCEPT ![idx] = <<"ok", "">>]
          /\ idx' = idx + 1 /\ pc' = "m_date"
          /\ ResetLocals
          /\ UNCHANGED runErr
          /\ UNCHANGED <<cfgv, remv, calv, sitev, obsv>>
       \/ /\ Columns(all_data) # ARITY
          /\ Raise("ValueError", "main")
          /\ UNCHANGED <<cfgv, remv, calv, sitev, obsv>>

Next ==
    \/ MainGet \/ MainNextDate \/ MainQuit
    \/ CloseCalendar \/ CloseCalendarPoll
    \/ OpenCalendarClick \/ OpenCalendarWait
    \/ PickDateYear \/ SetYearOpenGrid \/ SetYearStep
    \/ TryOpen \/ TryOpenWait \/ EnsureNextRound \/ SetMonthClick
    \/ SetMonthOpen \/ SetMonthPick
    \/ EnsureMonthYear \/ ClickDayCandidates \/ ConfirmAsof
    \/ ClickDay \/ WaitDateApplied
    \/ WaitTableRows \/ WaitTableKey \/ WaitTableStable
    \/ Scrape \/ GoBefore \/ GoClick \/ GoClickNumbered \/ GoWait
    \/ Validate
    \/ EnvApply \/ EnvRender \/ EnvDismiss
    \/ SessionFails

Spec == Init /\ [][Next]_vars

\* ------------------------------------------------- the script run twice
\* The script is started again for the same range, against the same remote
\* tables; what the first run produced is kept for comparison.
FreshNext ==
    /\ popup' = FALSE /\ view' = "days" /\ calY' = Today[1] /\ calM' = Today[2]
    /\ yrWin' = WinOf(Today[1]) /\ esc' = FALSE
    /\ echo' = NoText /\ pending' = NoDate /\ sel' = <<Today, 1>> /\ tab' = <<Today, 1>>
    /\ pc' = (IF ver = "v2" THEN "m_date" ELSE "m_get")
    /\ ResetLocals
    /\ idx' = 1
    /\ result' = [n \in DOMAIN dates |-> <<"pending", "">>]
    /\ out' = [n \in DOMAIN dates |-> <<>>]
    /\ runErr' = <<"", "">>
    /\ atClick' = "na" /\ fps' = <<>> /\ log' = <<>> /\ dayClick' = "na"

Rerun ==
    /\ pc = "done" /\ prev = <<>>
    /\ prev' = [n \in DOMAIN dates |-> <<result[n][1], out[n]>>]
    /\ FreshNext
    /\ alive' = TRUE
    /\ UNCHANGED <<ver, dates, rs, pn, remv>>

InitOneDate == InitRange(START_DATE, START_DATE) /\ rs = NoRetry /\ pn = NoParse

NextTwice == Next \/ Rerun

SpecTwice == InitOneDate /\ [][NextTwice]_vars

\* =================================================== the claims
\* The rows of all the pages of the table of date d, in page order.
RECURSIVE PagesUpTo(_, _)
PagesUpTo(d, p) == IF p < 1 THEN <<>> ELSE PagesUpTo(d, p - 1) \o Rows(d, p)

AllRows(d) == PagesUpTo(d, NPages(d))

InCycle == idx \in DOMAIN dates /\ pc \notin {"m_get", "m_date", "m_quit", "done"}

\* The date-selection step has returned and the cycle is with the table.
Selected ==
    InCycle /\ pc \in {"wtr_rows", "wtr_k1", "wtr_loop", "w_scrape",
                       "g_before", "g_click", "g_click1", "g_wait", "validate"}

\* C1: when the page walk of python_scrape_floorsheet.py over a table of N >= 1
\* pages has ended by go_to_next_page returning False, the accumulated rows are
\* the rows of pages 1..N of the selected date, each page once and in order.
C1_WalkInOrder ==
    (ver = "v3" /\ InCycle /\ pc = "validate" /\ npages[target] >= 1)
        => all_data = AllRows(target)

\* C2: once pick_date / set_floorsheet_date_by_calendar has returned normally,
\* the date echo shows exactly the target date.
C2_EchoIsTarget == Selected => (echo # NoText /\ strptime(echo) = target)

C2_Witness ==
    /\ Selected /\ pc \in {"wtr_rows", "w_scrape"} /\ fps = <<>>
    /\ idx = 2 /\ echo = Shown(target)

\* C3: a failure of one date does not end the run: when the run is over, every
\* date of the range has been attempted.
C3_EveryDateAttempted ==
    pc = "done" => \A n \in DOMAIN dates : result[n][1] # "pending"

\* C4: after go_to_next_page returned True from a non-empty table, the first
\* cell differs from the one read before the click, and no two pages scraped
\* one after the other in a date cycle have the same first cell.
C4_FingerprintMoves ==
    /\ (InCycle /\ pc = "w_scrape" /\ current_page > 1 /\ before # None)
          => first_row_key(tab) # before
    /\ \A k \in 1..(Len(fps) - 1) : fps[k] # None => fps[k + 1] # fps[k]

C4_Witness ==
    /\ InCycle /\ pc = "w_scrape" /\ current_page = 2 /\ before # None
    /\ Len(fps) = 1 /\ fps[1] = before /\ first_row_key(tab) # None

\* C5: an accepted dataset (here: one made of rows of its own date only) has
\* exactly 7 fields in every row.
C5_EveryRowSeven ==
    \A n \in DOMAIN dates :
        (result[n][1] = "ok" /\ \A k \in DOMAIN out[n] : out[n][k].key[1] = dates[n])
            => \A k \in DOMAIN out[n] : out[n][k].n = ARITY

\* C6: once a date is selected and its table, which has no data rows, is on
\* display, no step of the cycle fails, and the dataset it yields has no rows.
C6_EmptyCompletes ==
    [][(Selected /\ sel[1] = target /\ tab[1] = target /\ npages[target] = 0
        /\ all_data = <<>> /\ alive')
          => /\ result'[idx][1] \in {"pending", "ok"}
             /\ result'[idx][1] = "ok" => out'[idx] = <<>>]_vars

\* C7: every row accumulated in the cycle of date D is a row of D's table.
C7_RowsOfTarget ==
    (ver = "v3" /\ InCycle)
        => \A k \in DOMAIN all_data : all_data[k].key[1] = target

\* C8: the search loop of set_year never goes beyond 35 steps.
C8_YearSearchBounded == pc = "sy_loop" => i <= YEAR_STEPS

C8_Witness == pc = "sy_loop" /\ i = YEAR_STEPS /\ target[1] \notin Visible(yrWin)

\* C9: two runs of python_scrape_floorsheet.py for the same date against the
\* same remote table that both accept the date produce the same rows.
C9_SameRowsTwice ==
    \A n \in DOMAIN prev :
        (ver = "v3" /\ prev[n][1] = "ok" /\ result[n][1] = "ok") => out[n] = prev[n][2]

\* C10: the calendar popup is closed whenever open_calendar clicks the date input.
C10_ClosedAtClick == atClick # "open"

\* C11: after a failure of the browser session no further date of the range is
\* attempted.
C11_SessionFailureEndsRun ==
    \A n \in DOMAIN dates :
        result[n][1] = "WebDriverException"
            => \A m \in DOMAIN dates : m > n => result[m][1] = "pending"

\* C12: when go_to_next_page clicked the directional 'next' control and the
\* first cell still equals its value from before the click when the wait ends,
\* the call returns False and the page walk of the date ends normally.
C12_UnchangedEndsWalk ==
    [][(/\ pc = "g_wait" /\ strat = 2
        /\ before # None /\ first_row_key(tab) = before /\ tab = sel
        /\ \A k \in DOMAIN all_data : all_data[k].key[1] = target
        /\ alive' /\ pc' # "g_wait")
            => pc' = "validate"]_vars

\* C13: close_calendar never raises: whatever the popup does and whatever the
\* dismiss key-press does, it returns to its caller, after at most 20 polls for
\* the popup's disappearance.
C13_CloseNeverRaises ==
    [][(pc \in {"cc", "cc_poll"} /\ alive')
          => /\ pc' \in {"cc", "cc_poll", "oc_click"}
             /\ result' = result /\ runErr' = runErr
             /\ (pc' = "cc_poll" => i' <= CLOSE_POLLS)]_vars

\* The popup outlasts all 20 polls after a key-press that did not dismiss it.
C13_Witness == pc = "cc_poll" /\ i = CLOSE_POLLS /\ popup /\ ~esc

\* C14: a bounded wait whose condition was never met ends by raising, not by
\* returning: wait_table_ready goes on to the page walk only when two
\* successive reads of the first cell agreed.
C14_TableWaitMetOrRaises ==
    [][(pc = "wtr_loop" /\ pc' = "w_scrape") => Stable(k1, first_row_key(tab))]_vars

\* C15: within a date cycle the page index starts at 1, grows by exactly 1 when
\* go_to_next_page returns True and at no other step, and is back at 1 when the
\* next cycle starts: it equals the number of pages scraped so far for the
\* date, counting the page about to be scraped.
PagesScraped == Len(fps)

C15_PageIndex ==
    [][/\ InCycle' =>
            current_page' = IF pc' = "w_scrape" THEN PagesScraped' + 1
                            ELSE IF pc' \in {"g_before", "g_click", "g_click1", "g_wait", "validate"}
                                 THEN PagesScraped'
                                 ELSE 1
       /\ InCycle' /\ pc' \notin {"w_scrape", "g_before", "g_click", "g_click1", "g_wait", "validate"}
            => PagesScraped' = 0
       /\ current_page' # current_page
            => IF pc = "g_wait" /\ pc' = "w_scrape"
               THEN current_page' = current_page + 1
               ELSE current_page' = 1]_vars

\* The second date's walk has reached its second page.
C15_Witness == idx = 2 /\ pc = "g_before" /\ current_page = 2 /\ PagesScraped = 2

\* C16: every date of the inclusive range is attempted exactly once, in
\* ascending order, and none is attempted again after a failure: when the run
\* is over the dates attempted are the dates of the range, in order.
C16_AttemptsAreTheRange == (ver = "v3" /\ pc = "done" /\ alive) => log = dates

\* ------------------------------------- retry_on_stale, called on its own
InitRetry ==
    InitRange(START_DATE, START_DATE) /\ ver = "v3" /\ rs \in RetryCalls /\ pn = NoParse

NextRetry == RetryStep

SpecRetry == InitRetry /\ [][NextRetry]_vars

\* C17: retry_on_stale calls fn at most tries times; it returns the result of
\* the first call that does not raise a stale-reference error; when all tries
\* calls raise one it re-raises it; an error of another kind leaves at once,
\* from the call that raised it.
StaleUpTo(n) == \A k \in 1..n : rs.fn[k] = "stale"

C17_RetryOnStale ==
    /\ rs.calls <= rs.tries
    /\ StaleUpTo(rs.calls - 1)
    /\ rs.st = "run" => StaleUpTo(rs.calls)
    /\ rs.st = "returned" => rs.fn[rs.calls] = "ok" /\ rs.val = rs.calls
    /\ rs.st = "other" => rs.fn[rs.calls] = "other"
    /\ rs.st = "stale" <=> (rs.calls = rs.tries /\ StaleUpTo(rs.tries))
    /\ rs.st \in {"run", "returned", "other", "stale"}

\* A call that succeeds at its last permitted attempt.
C17_Witness ==
    rs.tries = STALE_TRIES /\ rs.st = "returned" /\ rs.val = STALE_TRIES

\* C18: the calendar steps of a date cycle occur in the order popup open, year
\* aligned, month grid, day selected, applied; in particular the month is
\* chosen only when the year the popup displays is the target year.
C18_MonthAfterYear ==
    [][(ver = "v3" /\ pc = "sm_click" /\ pc' = "cd") => calY = dt[1]]_vars

\* ------------------------------- a date whose number a filler cell carries
\* The grid of November 2025 starts with the cells 26..31 of October.
FILLER_DATE == <<2025, 11, 30>>

InitFiller == InitRange(FILLER_DATE, FILLER_DATE) /\ rs = NoRetry /\ pn = NoParse

SpecFiller == InitFiller /\ [][Next]_vars

\* C19: click_day only ever clicks a day cell of the displayed month, never a
\* filler cell of an adjacent month that carries the same number.
C19_NeverClicksFiller == dayClick # "fill"

\* --------------------------------------- the coercion, applied to one cell
InitParse ==
    InitRange(START_DATE, START_DATE) /\ ver = "v3" /\ rs = NoRetry /\ pn \in ParseCalls

NextParse == CoerceCell

SpecParse == InitParse /\ [][NextParse]_vars

\* C20: parse_numeric drops every character that is neither a digit nor a dot
\* and returns the number the remaining text denotes; it returns the absent
\* value exactly when the input is absent or blank or the remaining text is
\* empty or no number (two dots, no digit). Only Quantity, Rate and Amount are
\* coerced; the four other columns keep their text.
DigitsOf(s) == SelectSeq(s, isdigit)

\* The digits of s that stand after its dot.
Decimals(s) ==
    Cardinality({k \in DOMAIN s : isdigit(s[k]) /\ \E j \in 1..(k - 1) : s[j] = "."})

Denoted(s) == Norm(<<IntOf(DigitsOf(s)), Decimals(s)>>)

Unparsable(s) == DigitsOf(s) = <<>> \/ Cardinality(Dots(s)) > 1

C20_ParseNumeric ==
    pn.st = "done" =>
        IF pn.col \in {5, 6, 7}
        THEN /\ pn.out.kind = "absent" <=> (~pn.value.some \/ Unparsable(pn.value.s))
             /\ pn.out.kind # "absent" =>
                    pn.out.kind = "number" /\ pn.out.num = Denoted(pn.value.s)
        ELSE /\ pn.out.kind = "absent" <=> ~pn.value.some
             /\ pn.out.kind # "absent" => pn.out.kind = "text" /\ pn.out.s = pn.value.s

\* The Amount "1,234.50" has become 1234.5.
C20_Witness ==
    /\ pn.st = "done" /\ pn.col = 7 /\ pn.value = Some(Example)
    /\ pn.out = Number(<<12345, 1>>)

\* C21: go_to_next_page clicks the control labelled currentIndex+1 when there
\* is one; it clicks the directional 'next' control only when there is none;
\* with neither control it returns False, clicks nothing and leaves the
\* displayed page as it is.
C21_NumberedThenArrow ==
    [][(pc \in {"g_click", "g_click1"} /\ pc' # pc /\ alive')
          => /\ NumberedButton(pag', current_page + 1)
                   => strat' = 1 /\ sel' = <<sel[1], current_page + 1>> /\ pc' = "g_wait"
             /\ strat' = 2
                   => /\ ~NumberedButton(pag', current_page + 1) /\ NextButton(pag')
                      /\ sel' = NextClick(sel) /\ pc' = "g_wait"
             /\ (~NumberedButton(pag', current_page + 1) /\ ~NextButton(pag'))
                   => pc' = "validate"
             /\ pc' = "validate" => strat' = 0 /\ sel' = sel /\ tab' = tab
             /\ strat' \in {0, 1, 2}]_vars

\* Both controls are there and the numbered one was clicked.
C21_Witness ==
    /\ ver = "v3" /\ pc = "g_wait" /\ strat = 1 /\ pag = "numbers+next"
    /\ sel = <<target, current_page + 1>>

\* C22: an output is produced for a date only when its page walk ended by
\* go_to_next_page returning False and the rows passed the arity check; a
\* cycle that ends with an error writes nothing, and the outputs of the
\* earlier dates stay as they were written.
C22_OutputOnlyAfterWalk ==
    [][/\ (pc' = "validate" /\ pc # "validate")
            => pc \in {"g_click", "g_click1", "g_wait"} /\ strat' = 0
       /\ \A n \in DOMAIN dates :
            /\ (result'[n] # result[n] /\ result'[n][1] = "ok")
                  => /\ n = idx /\ pc = "validate" /\ out'[n] = all_data
                     /\ \A k \in DOMAIN all_data : all_data[k].n <= ARITY
                     /\ all_data # <<>> => \E k \in DOMAIN all_data : all_data[k].n = ARITY
            /\ out'[n] # out[n]
                  => n = idx /\ pc = "validate" /\ result'[n][1] = "ok"
            /\ result[n][1] # "pending" => result'[n] = result[n]]_vars

\* The second date has failed; the first date's rows are still its output.
C22_Witness ==
    /\ Len(dates) = 2 /\ result[1][1] = "ok" /\ out[1] # <<>>
    /\ result[2][1] \notin {"ok", "pending"} /\ out[2] = <<>>

\* C23: set_month clicks the month button of the navigation bar only when the
\* month grid is not there; ensure_month_grid_open makes at most 3 rounds of at
\* most 4 stale-reference retries each and then raises a timeout error.
C23_MonthGridBounded ==
    [][/\ r' < GRID_ROUNDS /\ tin' < STALE_TRIES /\ tout' < STALE_TRIES
       /\ r' # r => r' = r + 1 \/ r' = 0
       /\ tin' # tin => tin' = tin + 1 \/ tin' = 0
       /\ (pc \in {"em_try", "sm1"} /\ popup /\ view = "months" /\ pc' # pc /\ alive')
            => view' = "months" /\ pc' \in {"sm_click", "sm1_wait"}
       /\ (pc = "em_next" /\ pc' # pc /\ alive')
            => IF r < GRID_ROUNDS - 1
               THEN pc' = "em_try" /\ r' = r + 1
               ELSE result'[idx] = <<"TimeoutException", "ensure_month_grid_open">>
       /\ \A n \in DOMAIN dates :
            (result'[n] # result[n] /\ result'[n][2] = "ensure_month_grid_open")
                => n = idx /\ pc = "em_next" /\ r = GRID_ROUNDS - 1]_vars

\* The third round has failed after its last stale-reference retry.
C23_Witness == pc = "em_next" /\ r = GRID_ROUNDS - 1

\* C24: in a search step of set_year with the target year not visible, the
\* arrow clicked is the backward one when the target is below the smallest
\* visible year and the forward one when it is above the largest; the window
\* of visible years never moves away from the target.
C24_TowardTarget ==
    [][(pc = "sy_loop" /\ i' = i + 1)
          => /\ dt[1] \notin Visible(yrWin)
             /\ dt[1] < MinOf(Visible(yrWin)) => yrWin' \in {yrWin - 1, yrWin}
             /\ dt[1] > MaxOf(Visible(yrWin)) => yrWin' \in {yrWin + 1, yrWin}
             /\ yrWin' # yrWin
                   => \/ WinOf(dt[1]) <= yrWin' /\ yrWin' < yrWin
                      \/ WinOf(dt[1]) >= yrWin' /\ yrWin' > yrWin]_vars

\* The search has stepped forward to the window of a later target year.
C24_Witness ==
    /\ pc = "sy_loop" /\ i = 1 /\ dt[1] \in Visible(yrWin) /\ dt[1] > sel[1][1]

\* ------------------------------------------ a target after today's month
\* A run for one date of the month after the month the calendar opens on.
AHEAD_DATE == <<2027, 2, 1>>

InitAhead == InitRange(AHEAD_DATE, AHEAD_DATE) /\ rs = NoRetry /\ pn = NoParse

SpecAhead == InitAhead /\ [][Next]_vars

\* The distance in months between the target month and month m of year y.
MonthsOff(y, m) ==
    LET d == (dt[1] * 12 + dt[2]) - (y * 12 + m) IN IF d < 0 THEN 0 - d ELSE d

\* C25: every step of ensure_month_year brings the displayed month one month
\* closer to the target month, from either side and without passing it, so
\* that a target at most MONTH_STEPS months away is reached.
C25_OneMonthCloser ==
    [][(pc = "emy" /\ i' = i + 1 /\ alive')
          => MonthsOff(calY', calM') = MonthsOff(calY, calM) - 1]_vars

\* C26: set_year looks at the year window after every arrow click, the last one
\* included: it raises its error only when the target year is not among the
\* visible years.
C26_ErrorOnlyWhenUnseen ==
    [][\A n \in DOMAIN dates :
          (result'[n] # result[n] /\ result'[n] = <<"RuntimeError", "set_year">>)
              => dt[1] \notin Visible(yrWin)]_vars

\* C27: whenever pick_date clicks a day, the popup displays the target year and
\* the target month, also when ensure_month_grid_open closed and reopened the
\* calendar after the year had been set.
C27_DayClickedInTargetMonth ==
    [][(ver = "v3" /\ pc = "cd" /\ pc' = "wda" /\ alive')
          => calY = dt[1] /\ calM = dt[2] /\ pending' = dt]_vars

\* C28: the page walk of a date is bounded by the table of that date: the
\* number of pages scraped for the date never exceeds the table's number of
\* pages, so the walk ends after finitely many calls of go_to_next_page.
C28_WalkWithinTable ==
    (ver = "v3" /\ idx \in DOMAIN dates /\ npages[target] >= 1)
        => PagesScraped <= npages[target]

\* C29: however the run ends once the browser session exists (all dates done,
\* an error of one date, an error that leaves main), the session is shut down
\* exactly once, by driver.quit in the finally clause, and after the shutdown
\* nothing is navigated, clicked or scraped.
C29_QuitOnceAtTheEnd ==
    [][/\ (pc' = "done" /\ pc # "done") => pc = "m_quit"
       /\ (pc = "m_quit" /\ pc' # pc) => pc' = "done" /\ ~popup' /\ pending' = NoDate
       /\ (pc = "m_date" /\ idx > Len(dates) /\ pc' # pc) => pc' = "m_quit"
       /\ runErr' # runErr => pc' = "m_quit" /\ ver # "v2"
       /\ (\E n \in DOMAIN dates : result'[n] # result[n] /\ result'[n][1] # "ok")
             => IF ver = "v2" THEN pc' = "m_date" ELSE pc' = "m_quit"
       /\ pc = "done" => UNCHANGED <<calv, sitev, walkv, mainv, obsv>>]_vars

\* The first date was written, the second one failed with an error that left
\* main, and the session has been shut down.
C29_Witness ==
    /\ pc = "done" /\ Len(dates) = 2 /\ result[1][1] = "ok"
    /\ runErr # <<"", "">> /\ result[2] = runErr

====
